---------------------------- MODULE Spec2Model ----------------------------
(***************************************************************************)
(* A model of snorkel/models/context.py: the stable-id codec, the         *)
(* TemporarySpan value operations, the get-or-insert materialization of   *)
(* TemporaryContexts (load_id_or_insert) against the context/span tables, *)
(* and the delete cascade the ORM relationships declare.                  *)
(*                                                                         *)
(* Python strings are sequences of one-character strings, so that         *)
(* formatting and parsing are computed, never assumed.                    *)
(***************************************************************************)
EXTENDS Integers, Sequences, FiniteSets, TLC

VARIABLES
    context,    \* table context:  rows [id, type, stable_id]
    span,       \* table span:     rows [id, parent_id, char_start, char_end, meta]
    document,   \* table document: rows [id]
    sentence,   \* table sentence: rows [id, document_id]
    table,      \* table table:    rows [id, document_id]
    cell,       \* table cell:     rows [id, document_id, table_id]
    phrase,     \* table phrase:   rows [id, document_id, table_id, cell_id]
    next_id,    \* the next primary key the context table hands out
    cand,       \* per caller: the TemporarySpan load_id_or_insert runs on
    pc,         \* per caller: where it stands in load_id_or_insert
    stable_id,  \* per caller: the local stable_id of the running call
    executed,   \* per caller: the statements its latest call gave session.execute
    call,       \* a pure function's call: [fn, args]
    ret         \* what the call returned or raised

vars == <<context, span, document, sentence, table, cell, phrase, next_id,
          cand, pc, stable_id, executed, call, ret>>

store == <<context, span, document, sentence, table, cell, phrase, next_id>>

callers == <<cand, pc, stable_id, executed>>

\* Python's None, and an int where None may stand instead: <<>> and <<n>>.
None == <<>>

Some(n) == <<n>>

IntOf(x) == x[1]

\* No exception: the call returned.
NoException == "no exception"

(***************************************************************************)
(* Python values a call ends with: a returned value or a raised exception. *)
(***************************************************************************)
Return(v) == [exc |-> NoException, val |-> v]

Raise(e) == [exc |-> e, val |-> <<>>]

Pending == [exc |-> "pending", val |-> <<>>]

(***************************************************************************)
(* Strings.                                                                *)
(***************************************************************************)
Digits == <<"0", "1", "2", "3", "4", "5", "6", "7", "8", "9">>

IsDigit(c) == c \in {"0", "1", "2", "3", "4", "5", "6", "7", "8", "9"}

DigitVal(c) == (CHOOSE i \in 1..10 : Digits[i] = c) - 1

Whitespace == {" ", "\t", "\n", "\r", "\f"}

\* str.find from index i on: the first index at which sep occurs in s, 0 when
\* it does not.
RECURSIVE FindFrom(_, _, _)
FindFrom(s, sep, i) ==
    IF i + Len(sep) - 1 > Len(s) THEN 0
    ELSE IF \A k \in 1..Len(sep) : s[i + k - 1] = sep[k] THEN i
    ELSE FindFrom(s, sep, i + 1)

Find(s, sep) == FindFrom(s, sep, 1)

\* str.split(sep): the parts between the occurrences of sep, found left to right.
RECURSIVE split(_, _)
split(s, sep) ==
    LET i == Find(s, sep)
    IN  IF i = 0 THEN <<s>>
        ELSE <<SubSeq(s, 1, i - 1)>> \o split(SubSeq(s, i + Len(sep), Len(s)), sep)

\* str.strip() as int() applies it before parsing.
RECURSIVE lstrip(_)
lstrip(s) ==
    IF s # <<>> /\ Head(s) \in Whitespace THEN lstrip(Tail(s)) ELSE s

RECURSIVE rstrip(_)
rstrip(s) ==
    IF s # <<>> /\ s[Len(s)] \in Whitespace THEN rstrip(SubSeq(s, 1, Len(s) - 1)) ELSE s

RECURSIVE DigitsValue(_)
DigitsValue(s) ==
    IF s = <<>> THEN 0 ELSE 10 * DigitsValue(SubSeq(s, 1, Len(s) - 1)) + DigitVal(s[Len(s)])

\* int(s), base 10: surrounding whitespace, an optional sign, one or more digits.
int(s) ==
    LET t == rstrip(lstrip(s))
        signed == t # <<>> /\ Head(t) \in {"-", "+"}
        d == IF signed THEN Tail(t) ELSE t
    IN  IF d = <<>> \/ \E i \in 1..Len(d) : ~IsDigit(d[i])
        THEN Raise("ValueError")
        ELSE Return(IF signed /\ Head(t) = "-" THEN 0 - DigitsValue(d) ELSE DigitsValue(d))

\* "%s" of a non-negative integer.
RECURSIVE NatStr(_)
NatStr(n) ==
    IF n < 10 THEN <<Digits[n + 1]>> ELSE NatStr(n \div 10) \o <<Digits[(n % 10) + 1]>>

\* "%s" of an integer.
str(n) == IF n < 0 THEN <<"-">> \o NatStr(0 - n) ELSE NatStr(n)

(***************************************************************************)
(* The stable-id codec.                                                    *)
(***************************************************************************)
\* A split_stable_id that takes any three or more ":" fields.
split_stable_id_ExtraFields(sid) ==
    LET split1 == split(sid, <<":", ":">>)
    IN  IF Len(split1) = 2
        THEN LET split2 == split(split1[2], <<":">>)
             IN  IF Len(split2) >= 3
                 THEN LET a == int(split2[2])
                          b == int(split2[3])
                      IN  IF a.exc # NoException THEN a
                          ELSE IF b.exc # NoException THEN b
                          ELSE Return(<<split1[1], split2[1], a.val, b.val>>)
                 ELSE Raise("ValueError")
        ELSE Raise("ValueError")

split_stable_id(sid) ==
    LET split1 == split(sid, <<":", ":">>)
    IN  IF Len(split1) = 2
        THEN LET split2 == split(split1[2], <<":">>)
             IN  IF Len(split2) = 3
                 THEN LET a == int(split2[2])
                          b == int(split2[3])
                      IN  IF a.exc # NoException THEN a
                          ELSE IF b.exc # NoException THEN b
                          ELSE Return(<<split1[1], split2[1], a.val, b.val>>)
                 ELSE Raise("ValueError")
        ELSE Raise("ValueError")

\* A construct_stable_id that shifts the end offset by the parent's end.
construct_stable_id_ShiftByParentEnd(parent_context, polymorphic_type, relative_char_offset_start, relative_char_offset_end) ==
    LET p == split_stable_id(parent_context.stable_id)
    IN  IF p.exc # NoException THEN p
        ELSE LET parent_id == p.val[1]
                 start == p.val[3] + relative_char_offset_start
                 end == p.val[4] + relative_char_offset_end
             IN  Return(parent_id \o <<":", ":">> \o polymorphic_type \o <<":">>
                        \o str(start) \o <<":">> \o str(end))

construct_stable_id(parent_context, polymorphic_type, relative_char_offset_start, relative_char_offset_end) ==
    LET p == split_stable_id(parent_context.stable_id)
    IN  IF p.exc # NoException THEN p
        ELSE LET parent_id == p.val[1]
                 parent_char_start == p.val[3]
                 start == parent_char_start + relative_char_offset_start
                 end == parent_char_start + relative_char_offset_end
             IN  Return(parent_id \o <<":", ":">> \o polymorphic_type \o <<":">>
                        \o str(start) \o <<":">> \o str(end))

(***************************************************************************)
(* Python objects.  Every object has an identity, ref; a Context object    *)
(* (a Sentence, a Phrase, ...) carries the attributes the span code reads: *)
(* id, stable_id and char_offsets.                                         *)
(***************************************************************************)
ContextObject(ref, id, sid, char_offsets) ==
    [cls |-> "Context", ref |-> ref, id |-> id, stable_id |-> sid, char_offsets |-> char_offsets]

\* TemporarySpan.__init__ (TemporaryContext.__init__ sets id to None).
TemporarySpan(ref, parent, char_start, char_end, meta) ==
    [cls |-> "TemporarySpan", ref |-> ref, parent |-> parent, char_start |-> char_start,
     char_end |-> char_end, meta |-> meta, id |-> None]

\* Span(**kwargs): the declarative constructor sets the attributes it is given.
Span(ref, parent, char_start, char_end) ==
    [cls |-> "Span", ref |-> ref, parent |-> parent, char_start |-> char_start,
     char_end |-> char_end, meta |-> None, id |-> None]

\* The object a call creates: no object that exists has this identity.
NewRef == 0

\* == and != of objects that define neither: identity.
ObjectEq(a, b) == a.ref = b.ref

\* hash() of an object that does not define it: a function of its identity.
ObjectHash(a) == a.ref

\* hash() of an int: the int itself, but for -1.
IntHash(n) == IF n = -1 THEN -2 ELSE n

\* hasattr(o, 'parent') and 'char_start' and 'char_end': what __eq__ reads of other.
HasSpanAttributes(o) == o.cls \in {"TemporarySpan", "Span"}

(***************************************************************************)
(* TemporarySpan: value operations.  Span overrides __eq__, __ne__ and     *)
(* __hash__ with the default (identity) ones.                              *)
(***************************************************************************)
\* An __eq__ that leaves char_end out of the comparison.
__eq__IgnoringCharEnd(self, other) ==
    IF self.cls = "Span" THEN ObjectEq(self, other)
    ELSE IF ~HasSpanAttributes(other) THEN FALSE
    ELSE /\ ObjectEq(self.parent, other.parent)
         /\ self.char_start = other.char_start

__eq__(self, other) ==
    IF self.cls = "Span" THEN ObjectEq(self, other)
    ELSE IF ~HasSpanAttributes(other) THEN FALSE
    ELSE /\ ObjectEq(self.parent, other.parent)
         /\ self.char_start = other.char_start
         /\ self.char_end = other.char_end

__ne__(self, other) ==
    IF self.cls = "Span" THEN ~ObjectEq(self, other)
    ELSE IF ~HasSpanAttributes(other) THEN TRUE
    ELSE \/ ~ObjectEq(self.parent, other.parent)
         \/ self.char_start # other.char_start
         \/ self.char_end # other.char_end

__hash__(self) ==
    IF self.cls = "Span" THEN ObjectHash(self)
    ELSE ObjectHash(self.parent) + IntHash(self.char_start) + IntHash(self.char_end)

__contains__(self, other_span) ==
    other_span.char_start >= self.char_start /\ other_span.char_end <= self.char_end

_get_instance(self, char_start, char_end, parent) ==
    IF self.cls = "Span" THEN Span(NewRef, parent, char_start, char_end)
    ELSE TemporarySpan(NewRef, parent, char_start, char_end, None)

\* A key is slice(start, stop), each bound an int or None, or an index.
IsSlice(key) == key.slice

\* A __getitem__ that takes a non-negative stop as an inclusive end.
__getitem__InclusiveStop(self, key) ==
    IF IsSlice(key)
    THEN LET char_start == IF key.start = None THEN self.char_start
                           ELSE self.char_start + IntOf(key.start)
             char_end == IF key.stop = None THEN self.char_end
                         ELSE IF IntOf(key.stop) >= 0 THEN self.char_start + IntOf(key.stop)
                         ELSE self.char_end + IntOf(key.stop)
         IN  Return(_get_instance(self, char_start, char_end, self.parent))
    ELSE Raise("NotImplementedError")

__getitem__(self, key) ==
    IF IsSlice(key)
    THEN LET char_start == IF key.start = None THEN self.char_start
                           ELSE self.char_start + IntOf(key.start)
             char_end == IF key.stop = None THEN self.char_end
                         ELSE IF IntOf(key.stop) >= 0 THEN self.char_start + IntOf(key.stop) - 1
                         ELSE self.char_end + IntOf(key.stop)
         IN  Return(_get_instance(self, char_start, char_end, self.parent))
    ELSE Raise("NotImplementedError")

\* A loop that returns the word after the one the character is in.
RECURSIVE CharToWordLoop_NextWord(_, _, _)
CharToWordLoop_NextWord(char_offsets, ci, k) ==
    IF k > Len(char_offsets)
    THEN (IF k = 1 THEN None ELSE Some(k - 2))
    ELSE IF ci = char_offsets[k] THEN Some(k - 1)
    ELSE IF ci < char_offsets[k] THEN Some(k - 1)
    ELSE CharToWordLoop_NextWord(char_offsets, ci, k + 1)

\* The for loop of char_to_word_index from its k-th round on; Python's i is k - 1.
RECURSIVE CharToWordLoop(_, _, _)
CharToWordLoop(char_offsets, ci, k) ==
    IF k > Len(char_offsets)
    THEN (IF k = 1 THEN None ELSE Some(k - 2))
    ELSE IF ci = char_offsets[k] THEN Some(k - 1)
    ELSE IF ci < char_offsets[k] THEN Some((k - 1) - 1)
    ELSE CharToWordLoop(char_offsets, ci, k + 1)

char_to_word_index(self, ci) == CharToWordLoop(self.parent.char_offsets, ci, 1)

(***************************************************************************)
(* The pure functions, called on inputs drawn from bounded sets.           *)
(***************************************************************************)
MaxLen == 8       \* the longest string handed to split_stable_id

MaxRel == 3       \* the largest relative offset handed to construct_stable_id

MaxChar == 2      \* the largest char_start / char_end of a compared or sliced span

MaxOffset == 4    \* the largest entry of char_offsets

MaxWords == 3     \* the longest char_offsets

Alphabet == {"a", ":", "1", "-", " "}

Examples ==
    { <<"n","o","s","e","p","a","r","a","t","o","r">>, <<"a",":",":","b">>,
      <<"a",":",":","b",":","c">>, <<"r","o","o","t",":",":","s","p","a","n",":","3",":","7">>,
      <<"d",":",":","s",":"," ","4","2"," ",":","+","0","7">>, <<"d",":",":","s",":","1",":","2",":",":","x">> }

\* The polymorphic identities of the Context classes.
Kinds ==
    { <<"d","o","c","u","m","e","n","t">>, <<"s","e","n","t","e","n","c","e">>,
      <<"t","a","b","l","e">>, <<"c","e","l","l">>, <<"p","h","r","a","s","e">>,
      <<"s","p","a","n">> }

Roots == { <<"d">>, <<"d",":","1">>, <<>> }

StartForms == { <<"0">>, <<"7">>, <<"-","3">>, <<"1","2">>, <<" ","5">>, <<"+","4">>, <<"0","0","8">> }

EndForms == { <<"0">>, <<"9","9">> }

ParentStableIds ==
    { r \o <<":", ":">> \o k \o <<":">> \o a \o <<":">> \o b :
        r \in Roots, k \in {<<"s","e","n","t","e","n","c","e">>, <<"s","p","a","n">>, <<>>},
        a \in StartForms, b \in EndForms }
    \cup { <<"d">>, <<"d",":",":","s">>, <<"d",":",":","s",":","x",":","1">> }

ParentObjects == { ContextObject(r, Some(r), <<"d",":",":","s",":","0",":","9">>, <<>>) : r \in 1..2 }

SpanInputs ==
    { [TemporarySpan(r, p, cs, ce, m) EXCEPT !.id = i] :
        r \in {1}, p \in ParentObjects, cs \in -1..MaxChar, ce \in -1..MaxChar,
        m \in {None, <<"m">>}, i \in {None, Some(7)} }

PersistedSpanInputs ==
    { [Span(3, p, cs, ce) EXCEPT !.id = Some(7)] : p \in ParentObjects, cs \in -1..MaxChar, ce \in -1..MaxChar }

SliceBounds == {None} \cup {Some(n) : n \in -2..MaxChar}

Keys ==
    { [slice |-> TRUE, start |-> a, stop |-> b] : a \in SliceBounds, b \in SliceBounds }
    \cup { [slice |-> FALSE, start |-> None, stop |-> None] }

IsStrictlyIncreasing(f) == \A i \in 1..(Len(f) - 1) : f[i] < f[i + 1]

CharOffsets ==
    { f \in UNION {[1..n -> 0..MaxOffset] : n \in 0..MaxWords} : IsStrictlyIncreasing(f) }

EmptyStore ==
    /\ context = {} /\ span = {} /\ document = {} /\ sentence = {}
    /\ table = {} /\ cell = {} /\ phrase = {} /\ next_id = 1

NoCallers == cand = <<>> /\ pc = <<>> /\ stable_id = <<>> /\ executed = <<>>

Called(fn, args) == call = [fn |-> fn, args |-> args]

InitCodec ==
    /\ EmptyStore /\ NoCallers
    /\ ret = Pending
    /\ \/ \E n \in 0..MaxLen : \E s \in [1..n -> Alphabet] : Called("split_stable_id", <<s>>)
       \/ \E s \in Examples : Called("split_stable_id", <<s>>)
       \/ \E sid \in ParentStableIds, k \in Kinds, s \in -1..MaxRel, e \in -1..MaxRel :
            Called("construct_stable_id", <<ContextObject(1, Some(1), sid, <<>>), k, s, e>>)

Call_split_stable_id ==
    /\ ret = Pending /\ call.fn = "split_stable_id"
    /\ ret' = split_stable_id(call.args[1])
    /\ UNCHANGED <<store, callers, call>>

Call_construct_stable_id ==
    /\ ret = Pending /\ call.fn = "construct_stable_id"
    /\ ret' = construct_stable_id(call.args[1], call.args[2], call.args[3], call.args[4])
    /\ UNCHANGED <<store, callers, call>>

NextCodec ==
    \/ Call_split_stable_id
    \/ Call_construct_stable_id

SpecCodec == InitCodec /\ [][NextCodec]_vars

InitSpan ==
    /\ EmptyStore /\ NoCallers
    /\ ret = Pending
    /\ \/ \E f \in {"__eq__", "__ne__"}, x \in SpanInputs,
             y \in SpanInputs \cup {[cls |-> "object", ref |-> 9]} : Called(f, <<x, y>>)
       \/ \E x \in SpanInputs \cup PersistedSpanInputs : Called("__hash__", <<x>>)
       \/ \E x \in {y \in SpanInputs : y.meta = None} \cup PersistedSpanInputs, k \in Keys :
            Called("__getitem__", <<x, k>>)
       \/ \E f \in CharOffsets, ci \in -1..(MaxOffset + 1) :
            Called("char_to_word_index",
                   <<TemporarySpan(1, ContextObject(2, Some(2), <<>>, f), 0, 0, None), ci>>)

Call_eq ==
    /\ ret = Pending /\ call.fn = "__eq__"
    /\ ret' = Return(__eq__(call.args[1], call.args[2]))
    /\ UNCHANGED <<store, callers, call>>

Call_ne ==
    /\ ret = Pending /\ call.fn = "__ne__"
    /\ ret' = Return(__ne__(call.args[1], call.args[2]))
    /\ UNCHANGED <<store, callers, call>>

Call_hash ==
    /\ ret = Pending /\ call.fn = "__hash__"
    /\ ret' = Return(__hash__(call.args[1]))
    /\ UNCHANGED <<store, callers, call>>

Call_getitem ==
    /\ ret = Pending /\ call.fn = "__getitem__"
    /\ ret' = __getitem__(call.args[1], call.args[2])
    /\ UNCHANGED <<store, callers, call>>

Call_char_to_word_index ==
    /\ ret = Pending /\ call.fn = "char_to_word_index"
    /\ ret' = Return(char_to_word_index(call.args[1], call.args[2]))
    /\ UNCHANGED <<store, callers, call>>

NextSpan ==
    \/ Call_eq
    \/ Call_ne
    \/ Call_hash
    \/ Call_getitem
    \/ Call_char_to_word_index

SpecSpan == InitSpan /\ [][NextSpan]_vars


Returned(fn) == call.fn = fn /\ ret # Pending

(***************************************************************************)
(* The store: what the statements load_id_or_insert hands to               *)
(* session.execute do to the tables, and the constraints the tables        *)
(* declare.  Each statement takes effect when it is executed.              *)
(***************************************************************************)
ContextRow(id, type, sid) == [id |-> id, type |-> type, stable_id |-> sid]

SpanRow(id, parent_id, char_start, char_end, meta) ==
    [id |-> id, parent_id |-> parent_id, char_start |-> char_start, char_end |-> char_end,
     meta |-> meta]

\* select([Context.id]).where(Context.stable_id == stable_id): the ids it yields.
SelectContextId(sid) == {r.id : r \in {x \in context : x.stable_id = sid}}

\* A context table that does not enforce the uniqueness of stable_id.
StableIdIsUnique_NotEnforced(sid) == TRUE

\* Context.stable_id is unique: no row holds sid yet.
StableIdIsUnique(sid) == \A r \in context : r.stable_id # sid

\* Span.id is the primary key, and (parent_id, char_start, char_end) is unique.
SpanIsUnique(id, parent_id, char_start, char_end) ==
    \A r \in span :
        /\ r.id # id
        /\ ~(r.parent_id = parent_id /\ r.char_start = char_start /\ r.char_end = char_end)

(***************************************************************************)
(* TemporarySpan: what load_id_or_insert asks of the candidate.            *)
(***************************************************************************)
_get_polymorphic_identity(self) == <<"s","p","a","n">>

_get_table_name(self) == <<"s","p","a","n">>

get_stable_id(self) ==
    construct_stable_id(self.parent, _get_polymorphic_identity(self), self.char_start, self.char_end)

_get_insert_args(self) ==
    [parent_id |-> self.parent.id, char_start |-> self.char_start,
     char_end |-> self.char_end, meta |-> self.meta]

\* A guard that runs the lookup whatever the candidate's id is.
IdIsNone_Always(self) == TRUE

\* if self.id is None
IdIsNone(self) == self.id = None

\* A lookup that never finds the row.
Lookup_NeverFinds(sid) == {}

\* session.execute(select ...).first(): the rows the lookup may yield.
Lookup(sid) == SelectContextId(sid)

(***************************************************************************)
(* load_id_or_insert, one action per statement it executes.                *)
(***************************************************************************)
MaxId == 5        \* the largest primary key the context table hands out

\* The char_start / char_end of the candidates.
CandidateChars == {0, 1}

Callers == {"w1", "w2"}

Document1 == ContextObject(1, Some(1), <<"d",":",":","d","o","c","u","m","e","n","t",":","0",":","0">>, <<>>)

Sentence2 == ContextObject(2, Some(2), <<"d",":",":","s","e","n","t","e","n","c","e",":","0",":","3">>, <<>>)

Phrase3 == ContextObject(3, Some(3), <<"d",":",":","p","h","r","a","s","e",":","1",":","4">>, <<>>)

Parents == {Sentence2, Phrase3}

Candidates ==
    { TemporarySpan(1, p, o[1], o[2], None) :
        p \in Parents, o \in {x \in CandidateChars \X CandidateChars : x[1] <= x[2]} }

InReady(w) == pc[w] = "ready"

InCall(w) == pc[w] \in {"insert_context", "insert_span"}

HasRaised(w) == pc[w] \in {"IntegrityError", "ValueError"}

\* Lines 303-307 and 314-315: the guard, the stable id, the lookup, and the
\* adoption of the row found.
load_id_or_insert(w) ==
    /\ InReady(w)
    /\ IF ~IdIsNone(cand[w])
       THEN /\ executed' = [executed EXCEPT ![w] = <<>>]
            /\ UNCHANGED <<cand, pc, stable_id>>
       ELSE LET sid == get_stable_id(cand[w])
            IN  IF sid.exc # NoException
                THEN /\ pc' = [pc EXCEPT ![w] = sid.exc]
                     /\ executed' = [executed EXCEPT ![w] = <<>>]
                     /\ UNCHANGED <<cand, stable_id>>
                ELSE /\ stable_id' = [stable_id EXCEPT ![w] = sid.val]
                     /\ executed' = [executed EXCEPT ![w] = <<"select">>]
                     /\ IF Lookup(sid.val) = {}
                        THEN /\ pc' = [pc EXCEPT ![w] = "insert_context"]
                             /\ UNCHANGED cand
                        ELSE /\ \E id \in Lookup(sid.val) :
                                  cand' = [cand EXCEPT ![w].id = Some(id)]
                             /\ UNCHANGED pc
    /\ UNCHANGED <<store, call, ret>>

\* Lines 308-310: the insert into context, and the primary key it returns.
InsertContext(w) ==
    /\ pc[w] = "insert_context"
    /\ next_id <= MaxId
    /\ executed' = [executed EXCEPT ![w] = Append(@, "insert context")]
    /\ IF StableIdIsUnique(stable_id[w])
       THEN /\ context' = context \cup {ContextRow(next_id, _get_table_name(cand[w]), stable_id[w])}
            /\ next_id' = next_id + 1
            /\ cand' = [cand EXCEPT ![w].id = Some(next_id)]
            /\ pc' = [pc EXCEPT ![w] = "insert_span"]
       ELSE /\ pc' = [pc EXCEPT ![w] = "IntegrityError"]
            /\ UNCHANGED <<context, next_id, cand>>
    /\ UNCHANGED <<span, document, sentence, table, cell, phrase, stable_id, call, ret>>

\* Lines 311-313: the insert into span under the id of the context row.
InsertSpan(w) ==
    /\ pc[w] = "insert_span"
    /\ executed' = [executed EXCEPT ![w] = Append(@, "insert span")]
    /\ LET insert_args == _get_insert_args(cand[w])
           id == IntOf(cand[w].id)
       IN  IF SpanIsUnique(id, insert_args.parent_id, insert_args.char_start, insert_args.char_end)
           THEN /\ span' = span \cup {SpanRow(id, insert_args.parent_id, insert_args.char_start,
                                              insert_args.char_end, insert_args.meta)}
                /\ pc' = [pc EXCEPT ![w] = "ready"]
           ELSE /\ pc' = [pc EXCEPT ![w] = "IntegrityError"]
                /\ UNCHANGED span
    /\ UNCHANGED <<context, document, sentence, table, cell, phrase, next_id, cand, stable_id,
                   call, ret>>

\* The candidate's call has ended: it returned with the id set, or it raised.
CallEnded(w) == HasRaised(w) \/ (InReady(w) /\ cand[w].id # None)

\* TemporarySpan.__init__: a caller whose call has ended turns to a new candidate.
NewTemporarySpan(w) ==
    /\ CallEnded(w)
    /\ \E c \in Candidates : cand' = [cand EXCEPT ![w] = c]
    /\ cand'[w] # cand[w]
    /\ pc' = [pc EXCEPT ![w] = "ready"]
    /\ stable_id' = [stable_id EXCEPT ![w] = <<>>]
    /\ executed' = [executed EXCEPT ![w] = <<>>]
    /\ UNCHANGED <<store, call, ret>>

ParentRows ==
    /\ context = { ContextRow(1, <<"d","o","c","u","m","e","n","t">>, Document1.stable_id),
                   ContextRow(2, <<"s","e","n","t","e","n","c","e">>, Sentence2.stable_id),
                   ContextRow(3, <<"p","h","r","a","s","e">>, Phrase3.stable_id) }
    /\ document = {[id |-> 1]}
    /\ sentence = {[id |-> 2, document_id |-> Some(1)]}
    /\ phrase = {[id |-> 3, document_id |-> Some(1), table_id |-> None, cell_id |-> None]}
    /\ table = {} /\ cell = {}
    /\ span = {}
    /\ next_id = 4

Init ==
    /\ ParentRows
    /\ cand \in [Callers -> Candidates]
    /\ pc = [w \in Callers |-> "ready"]
    /\ stable_id = [w \in Callers |-> <<>>]
    /\ executed = [w \in Callers |-> <<>>]
    /\ call = [fn |-> "load_id_or_insert", args |-> <<>>]
    /\ ret = Pending

Next ==
    \E w \in Callers :
        \/ load_id_or_insert(w)
        \/ InsertContext(w)
        \/ InsertSpan(w)
        \/ NewTemporarySpan(w)

\* Concurrent callers: the statements of their calls interleave.
Spec == Init /\ [][Next]_vars

\* One caller at a time: a call runs to its end before the next one starts.
NextSeq ==
    \E w \in Callers :
        /\ \A u \in Callers \ {w} : ~InCall(u)
        /\ \/ load_id_or_insert(w)
           \/ InsertContext(w)
           \/ InsertSpan(w)
           \/ NewTemporarySpan(w)

SpecSeq == Init /\ [][NextSeq]_vars

(***************************************************************************)
(* The ownership hierarchy and the delete cascade.  The relationships      *)
(* with cascade='all, delete-orphan' on their backref: deleting the parent *)
(* object deletes the objects the backref collection holds.                *)
(***************************************************************************)
Ids(rows) == {r.id : r \in rows}

\* Document.sentences, the backref of Sentence.document
sentences(id) == Ids({r \in sentence : r.document_id = Some(id)})

\* Document.tables, the backref of Table.document
tables(id) == Ids({r \in table : r.document_id = Some(id)})

\* Document.cells and Table.cells, the backrefs of Cell.document and Cell.table
cells(id) == Ids({r \in cell : r.document_id = Some(id) \/ r.table_id = Some(id)})

\* Document.phrases, Table.phrases and Cell.phrases, the backrefs of Phrase's
phrases(id) ==
    Ids({r \in phrase : r.document_id = Some(id) \/ r.table_id = Some(id) \/ r.cell_id = Some(id)})

\* A Span.parent whose backref does not cascade the delete.
spans_NoCascade(id) == {}

\* Context.spans, the backref of Span.parent
spans(id) == Ids({r \in span : r.parent_id = Some(id)})

\* The objects the delete of object id cascades to, directly.
CascadeTargets(id) ==
    LET type == (CHOOSE r \in context : r.id = id).type
    IN  spans(id)
        \cup (IF type = <<"d","o","c","u","m","e","n","t">>
              THEN sentences(id) \cup tables(id) \cup cells(id) \cup phrases(id) ELSE {})
        \cup (IF type = <<"t","a","b","l","e">> THEN cells(id) \cup phrases(id) ELSE {})
        \cup (IF type = <<"c","e","l","l">> THEN phrases(id) ELSE {})

\* The objects session.delete marks deleted, starting from ids.
RECURSIVE Cascade(_)
Cascade(ids) ==
    LET more == ids \cup UNION {CascadeTargets(i) : i \in ids}
    IN  IF more = ids THEN ids ELSE Cascade(more)

MaxCascadeId == 5   \* the largest primary key handed out while the hierarchy is built

\* The stable id the parser gives the context it creates under key id.
ParsedStableId(root, kind, id) ==
    root \o <<":", ":">> \o kind \o <<":">> \o str(id) \o <<":">> \o str(id)

RootId(id) == split_stable_id((CHOOSE r \in context : r.id = id).stable_id).val[1]

AddContext(type, sid) ==
    /\ context' = context \cup {ContextRow(next_id, type, sid)}
    /\ next_id' = next_id + 1

AddDocument ==
    /\ next_id <= MaxCascadeId
    /\ AddContext(<<"d","o","c","u","m","e","n","t">>,
                  <<"d">> \o str(next_id) \o <<":",":","d","o","c","u","m","e","n","t",":","0",":","0">>)
    /\ document' = document \cup {[id |-> next_id]}
    /\ UNCHANGED <<span, sentence, table, cell, phrase, callers, call, ret>>

AddSentence ==
    /\ next_id <= MaxCascadeId
    /\ \E d \in Ids(document) :
         /\ AddContext(<<"s","e","n","t","e","n","c","e">>,
                       ParsedStableId(RootId(d), <<"s","e","n","t","e","n","c","e">>, next_id))
         /\ sentence' = sentence \cup {[id |-> next_id, document_id |-> Some(d)]}
    /\ UNCHANGED <<span, document, table, cell, phrase, callers, call, ret>>

AddTable ==
    /\ next_id <= MaxCascadeId
    /\ \E d \in Ids(document) :
         /\ AddContext(<<"t","a","b","l","e">>, ParsedStableId(RootId(d), <<"t","a","b","l","e">>, next_id))
         /\ table' = table \cup {[id |-> next_id, document_id |-> Some(d)]}
    /\ UNCHANGED <<span, document, sentence, cell, phrase, callers, call, ret>>

AddCell ==
    /\ next_id <= MaxCascadeId
    /\ \E t \in table :
         /\ AddContext(<<"c","e","l","l">>, ParsedStableId(RootId(t.id), <<"c","e","l","l">>, next_id))
         /\ cell' = cell \cup {[id |-> next_id, document_id |-> t.document_id, table_id |-> Some(t.id)]}
    /\ UNCHANGED <<span, document, sentence, table, phrase, callers, call, ret>>

AddPhrase ==
    /\ next_id <= MaxCascadeId
    /\ \E owner \in {[document_id |-> Some(d), table_id |-> None, cell_id |-> None] : d \in Ids(document)}
                    \cup {[document_id |-> c.document_id, table_id |-> c.table_id, cell_id |-> Some(c.id)] :
                            c \in cell} :
         /\ AddContext(<<"p","h","r","a","s","e">>,
                       ParsedStableId(RootId(IntOf(owner.document_id)), <<"p","h","r","a","s","e">>, next_id))
         /\ phrase' = phrase \cup {[id |-> next_id, document_id |-> owner.document_id,
                                    table_id |-> owner.table_id, cell_id |-> owner.cell_id]}
    /\ UNCHANGED <<span, document, sentence, table, cell, callers, call, ret>>

\* load_id_or_insert run to its end by a single caller on a new TemporarySpan
\* of a persisted parent: the lookup, and on a miss the two inserts.
MaterializeSpan ==
    /\ next_id <= MaxCascadeId
    /\ \E p \in context, cs \in CandidateChars :
         LET self == TemporarySpan(1, ContextObject(p.id, Some(p.id), p.stable_id, <<>>), cs, cs, None)
             sid == get_stable_id(self)
             insert_args == _get_insert_args(self)
         IN  /\ sid.exc = NoException
             /\ Lookup(sid.val) = {}
             /\ StableIdIsUnique(sid.val)
             /\ SpanIsUnique(next_id, insert_args.parent_id, insert_args.char_start, insert_args.char_end)
             /\ AddContext(_get_table_name(self), sid.val)
             /\ span' = span \cup {SpanRow(next_id, insert_args.parent_id, insert_args.char_start,
                                           insert_args.char_end, insert_args.meta)}
    /\ UNCHANGED <<document, sentence, table, cell, phrase, callers, call, ret>>

\* session.delete(document) and the flush: the rows of every object the
\* delete cascades to leave their tables.
DeleteDocument ==
    /\ \E d \in Ids(document) :
         LET gone == Cascade({d})
             Keep(rows) == {r \in rows : r.id \notin gone}
         IN  /\ context' = Keep(context)
             /\ document' = Keep(document)
             /\ sentence' = Keep(sentence)
             /\ table' = Keep(table)
             /\ cell' = Keep(cell)
             /\ phrase' = Keep(phrase)
             /\ span' = Keep(span)
    /\ UNCHANGED <<next_id, callers, call, ret>>

InitCascade ==
    /\ EmptyStore /\ NoCallers
    /\ call = [fn |-> "delete", args |-> <<>>]
    /\ ret = Pending

NextCascade ==
    \/ AddDocument
    \/ AddSentence
    \/ AddTable
    \/ AddCell
    \/ AddPhrase
    \/ MaterializeSpan
    \/ DeleteDocument

SpecCascade == InitCascade /\ [][NextCascade]_vars

(***************************************************************************)
(* The stable-id grammar, stated on the string itself:                     *)
(*   <root>::<kind>:<start>:<end>                                          *)
(***************************************************************************)
ColonPairs(s) == {i \in 1..(Len(s) - 1) : s[i] = ":" /\ s[i + 1] = ":"}

Colons(s) == {i \in 1..Len(s) : s[i] = ":"}

Least(S) == CHOOSE i \in S : \A j \in S : i <= j

Greatest(S) == CHOOSE i \in S : \A j \in S : j <= i

\* Whitespace, an optional sign, one or more digits, whitespace.
IsIntegerLiteral(f) ==
    \E i \in 1..Len(f) : \E j \in i..Len(f) :
        /\ \A k \in 1..(i - 1) : f[k] \in Whitespace
        /\ \A k \in (j + 1)..Len(f) : f[k] \in Whitespace
        /\ \/ \A k \in i..j : IsDigit(f[k])
           \/ j > i /\ f[i] \in {"-", "+"} /\ \A k \in (i + 1)..j : IsDigit(f[k])

RECURSIVE Pow10(_)
Pow10(n) == IF n = 0 THEN 1 ELSE 10 * Pow10(n - 1)

RECURSIVE SumOver(_, _)
SumOver(S, f) ==
    IF S = {} THEN 0 ELSE LET x == CHOOSE y \in S : TRUE IN f[x] + SumOver(S \ {x}, f)

\* The value of an integer literal: its digits weighted by their place.
LiteralValue(f) ==
    LET ds == {k \in 1..Len(f) : IsDigit(f[k])}
        place == [k \in ds |-> Cardinality({m \in ds : m > k})]
        magnitude == SumOver(ds, [k \in ds |-> DigitVal(f[k]) * Pow10(place[k])])
    IN  IF \E k \in 1..Len(f) : f[k] = "-" THEN 0 - magnitude ELSE magnitude

\* The string after the leftmost "::".
AfterSeparator(s) == SubSeq(s, Least(ColonPairs(s)) + 2, Len(s))

RootOf(s) == SubSeq(s, 1, Least(ColonPairs(s)) - 1)

KindOf(s) == SubSeq(AfterSeparator(s), 1, Least(Colons(AfterSeparator(s))) - 1)

StartOf(s) ==
    LET r == AfterSeparator(s)
    IN  SubSeq(r, Least(Colons(r)) + 1, Greatest(Colons(r)) - 1)

EndOf(s) ==
    LET r == AfterSeparator(s)
    IN  SubSeq(r, Greatest(Colons(r)) + 1, Len(r))

IsWellFormed(s) ==
    /\ ColonPairs(s) # {}
    /\ ColonPairs(AfterSeparator(s)) = {}
    /\ Cardinality(Colons(AfterSeparator(s))) = 2
    /\ IsIntegerLiteral(StartOf(s))
    /\ IsIntegerLiteral(EndOf(s))

\* C9: split_stable_id raises the malformed-id error (ValueError) on every
\* string outside the grammar <root>::<kind>:<int>:<int>, and on every string
\* inside it returns (root, kind, start, end) with start and end as integers.
C9_SplitAcceptsExactlyTheGrammar ==
    Returned("split_stable_id") =>
        LET s == call.args[1]
        IN  IF IsWellFormed(s)
            THEN ret = Return(<<RootOf(s), KindOf(s), LiteralValue(StartOf(s)), LiteralValue(EndOf(s))>>)
            ELSE ret = Raise("ValueError")

C9_Witness ==
    /\ Returned("split_stable_id")
    /\ call.args[1] = <<"r","o","o","t",":",":","s","p","a","n",":","3",":","7">>
    /\ ret = Return(<<<<"r","o","o","t">>, <<"s","p","a","n">>, 3, 7>>)

\* C5: for a parent whose stable_id is the well-formed R::k:a:b, any kind tag
\* and any 0 <= s <= e, split_stable_id(construct_stable_id(parent, kind, s, e))
\* returns (R, kind, a + s, a + e).
C5_RoundTripShiftsByParentStart ==
    Returned("construct_stable_id") =>
        LET parent == call.args[1]
            kind == call.args[2]
            s == call.args[3]
            e == call.args[4]
        IN  (IsWellFormed(parent.stable_id) /\ 0 <= s /\ s <= e) =>
                /\ ret.exc = NoException
                /\ split_stable_id(ret.val) =
                     Return(<<RootOf(parent.stable_id), kind,
                              LiteralValue(StartOf(parent.stable_id)) + s,
                              LiteralValue(StartOf(parent.stable_id)) + e>>)

C5_Witness ==
    /\ Returned("construct_stable_id")
    /\ call.args[1].stable_id = <<"d",":","1",":",":","s","p","a","n",":","7",":","9","9">>
    /\ call.args[3] = 1 /\ call.args[4] = 3
    /\ ret = Return(<<"d",":","1",":",":">> \o call.args[2] \o <<":","8",":","1","0">>)

(***************************************************************************)
(* TemporarySpan: equality, hashing, slicing, token lookup.                *)
(***************************************************************************)
IsTemporarySpan(o) == o.cls = "TemporarySpan"

SameValue(x, y) ==
    /\ x.parent.ref = y.parent.ref
    /\ x.char_start = y.char_start
    /\ x.char_end = y.char_end

\* C6: for TemporarySpans x and y, x == y iff parent, char_start and char_end
\* are equal, whatever id and meta are; x != y is the negation of x == y; and
\* x == y implies hash(x) == hash(y).
C6_EqualityAndHashByValue ==
    /\ (Returned("__eq__") /\ IsTemporarySpan(call.args[1]) /\ IsTemporarySpan(call.args[2])) =>
          (ret.val <=> SameValue(call.args[1], call.args[2]))
    /\ (Returned("__ne__") /\ IsTemporarySpan(call.args[1]) /\ IsTemporarySpan(call.args[2])) =>
          /\ ret.val <=> ~SameValue(call.args[1], call.args[2])
          /\ ret.val <=> ~__eq__(call.args[1], call.args[2])
    /\ (Returned("__hash__") /\ IsTemporarySpan(call.args[1])) =>
          \A y \in SpanInputs : __eq__(call.args[1], y) => __hash__(y) = ret.val

C6_Witness ==
    /\ Returned("__eq__")
    /\ IsTemporarySpan(call.args[1]) /\ IsTemporarySpan(call.args[2])
    /\ call.args[1].id # call.args[2].id
    /\ call.args[1].meta # call.args[2].meta
    /\ ret.val = TRUE

\* C7: slicing a span with [lo:hi] returns a new span of the same concrete
\* kind on the same parent, with char_start = self.char_start (lo missing) or
\* self.char_start + lo, and char_end = self.char_end (hi missing),
\* self.char_start + hi - 1 (hi >= 0) or self.char_end + hi (hi < 0).
C7_SliceBoundaryArithmetic ==
    (Returned("__getitem__") /\ call.args[2].slice) =>
        LET self == call.args[1]
            lo == call.args[2].start
            hi == call.args[2].stop
        IN  /\ ret.exc = NoException
            /\ ret.val.ref # self.ref
            /\ ret.val.cls = self.cls
            /\ ret.val.parent = self.parent
            /\ lo = None => ret.val.char_start = self.char_start
            /\ lo # None => ret.val.char_start = self.char_start + IntOf(lo)
            /\ hi = None => ret.val.char_end = self.char_end
            /\ (hi # None /\ IntOf(hi) >= 0) => ret.val.char_end = self.char_start + IntOf(hi) - 1
            /\ (hi # None /\ IntOf(hi) < 0) => ret.val.char_end = self.char_end + IntOf(hi)

C7_Witness ==
    /\ Returned("__getitem__")
    /\ call.args[1].cls = "Span"
    /\ call.args[1].char_start = 1 /\ call.args[1].char_end = 2
    /\ call.args[2] = [slice |-> TRUE, start |-> Some(1), stop |-> Some(2)]
    /\ ret.val.cls = "Span" /\ ret.val.char_start = 2 /\ ret.val.char_end = 2

\* C8: on non-empty, strictly increasing char_offsets, char_to_word_index
\* returns the index whose offset equals the target if there is one, else the
\* last index whose offset is below the target, and the index one below the
\* first (-1) when the target precedes the first offset.  Indexes count from 0.
C8_CharToWordIndex ==
    (Returned("char_to_word_index") /\ call.args[1].parent.char_offsets # <<>>) =>
        LET offs == call.args[1].parent.char_offsets
            target == call.args[2]
            exact == {i \in 1..Len(offs) : offs[i] = target}
            below == {i \in 1..Len(offs) : offs[i] < target}
        IN  /\ ret.exc = NoException
            /\ ret.val # None
            /\ exact # {} => IntOf(ret.val) + 1 \in exact
            /\ (exact = {} /\ below # {}) => IntOf(ret.val) + 1 = Greatest(below)
            /\ (exact = {} /\ below = {}) => IntOf(ret.val) = -1

C8_Witness ==
    /\ Returned("char_to_word_index")
    /\ call.args[1].parent.char_offsets = <<0, 2, 4>>
    /\ call.args[2] = 3
    /\ ret.val = Some(1)

(***************************************************************************)
(* Materialization.                                                        *)
(***************************************************************************)
RowsWithStableId(sid) == {r \in context : r.stable_id = sid}

\* The callers whose candidate had no id and whose call has ended.
Materialized(w) == CallEnded(w) /\ executed[w] # <<>>

\* C1 (under SpecSeq, one call at a time): after load_id_or_insert has run on
\* two distinct candidates with equal stable ids, the store holds exactly one
\* context row with that stable id and both candidates carry its id.
C1_SequentialMaterializationIsIdempotent ==
    \A w1 \in Callers : \A w2 \in Callers \ {w1} :
        (/\ Materialized(w1) /\ Materialized(w2)
         /\ get_stable_id(cand[w1]) = get_stable_id(cand[w2])) =>
            /\ ~HasRaised(w1) /\ ~HasRaised(w2)
            /\ cand[w1].id = cand[w2].id
            /\ Cardinality(RowsWithStableId(get_stable_id(cand[w1]).val)) = 1
            /\ \A r \in RowsWithStableId(get_stable_id(cand[w1]).val) : cand[w1].id = Some(r.id)

C1_Witness ==
    \E w1 \in Callers : \E w2 \in Callers \ {w1} :
        /\ Materialized(w1) /\ Materialized(w2)
        /\ get_stable_id(cand[w1]) = get_stable_id(cand[w2])
        /\ executed[w1] = <<"select", "insert context", "insert span">>
        /\ executed[w2] = <<"select">>
        /\ cand[w1].id = cand[w2].id

\* C2: under every interleaving of the callers' statements, the context table
\* holds at most one row per stable id.
C2_AtMostOneRowPerStableId ==
    \A r1 \in context : \A r2 \in context : r1.stable_id = r2.stable_id => r1 = r2

\* Two callers have both looked the same stable id up and missed, and one of
\* them has inserted its row since.
C2_Witness ==
    \E w1 \in Callers : \E w2 \in Callers \ {w1} :
        /\ pc[w1] = "insert_context"
        /\ pc[w2] = "insert_span"
        /\ stable_id[w1] = stable_id[w2]
        /\ RowsWithStableId(stable_id[w1]) # {}

\* C3, as claimed: a caller whose insert the uniqueness of stable_id rejects
\* re-reads and adopts the existing row's id, so every call that has ended has
\* ended without an error and with the id of the row of its stable id.
C3_RejectedCallerAdoptsExistingId ==
    \A w \in Callers :
        (CallEnded(w) /\ Len(executed[w]) >= 2) =>
            /\ ~HasRaised(w)
            /\ \E r \in RowsWithStableId(stable_id[w]) : cand[w].id = Some(r.id)

\* C4: load_id_or_insert on a candidate whose id is set executes no statement,
\* leaves every table as it is and leaves the candidate's id as it is.
C4_CallWithIdSetIsNoOp ==
    [][\A w \in Callers :
         (load_id_or_insert(w) /\ cand[w].id # None) =>
             /\ executed'[w] = <<>>
             /\ UNCHANGED store
             /\ cand'[w] = cand[w]
             /\ pc'[w] = pc[w]]_vars

\* A call on a candidate whose id is set has returned.
C4_Witness ==
    \E w \in Callers :
        /\ InReady(w) /\ cand[w].id # None /\ executed[w] = <<>>
        /\ \E r \in span : Some(r.id) = cand[w].id

\* The caller's latest call looked the stable id up and has returned.
HasReturned(w) == Materialized(w) /\ ~HasRaised(w)

\* The span rows stored under the id the caller's candidate carries.
SpanRowsOf(w) == {r \in span : Some(r.id) = cand[w].id}

\* C11, as claimed (under SpecSeq, one call at a time): after load_id_or_insert
\* has returned for a TemporarySpan c, on the insert path and on the adopt
\* path, the span row stored under c.id has c's parent id, char_start and
\* char_end; and two candidates that are unequal by value never carry the
\* same id.
C11_SpanRowMatchesCandidate ==
    /\ \A w \in Callers :
          HasReturned(w) =>
              /\ SpanRowsOf(w) # {}
              /\ \A r \in SpanRowsOf(w) :
                    /\ r.parent_id = cand[w].parent.id
                    /\ r.char_start = cand[w].char_start
                    /\ r.char_end = cand[w].char_end
    /\ \A w1 \in Callers : \A w2 \in Callers \ {w1} :
          (HasReturned(w1) /\ HasReturned(w2) /\ __ne__(cand[w1], cand[w2])) =>
              cand[w1].id # cand[w2].id

(***************************************************************************)
(* Cascade deletion.                                                       *)
(***************************************************************************)
\* The contexts a context is directly owned by: what its foreign keys name.
Owners(id) ==
    UNION { {IntOf(x) : x \in {r.document_id} \ {None}} : r \in {y \in sentence \cup table : y.id = id} }
    \cup UNION { {IntOf(x) : x \in {r.document_id, r.table_id} \ {None}} : r \in {y \in cell : y.id = id} }
    \cup UNION { {IntOf(x) : x \in {r.document_id, r.table_id, r.cell_id} \ {None}} :
                   r \in {y \in phrase : y.id = id} }
    \cup UNION { {IntOf(x) : x \in {r.parent_id} \ {None}} : r \in {y \in span : y.id = id} }

\* The ownership chain of id reaches d.
RECURSIVE RootsAt(_, _)
RootsAt(id, d) == id = d \/ \E o \in Owners(id) : RootsAt(o, d)

AllTables == <<context, document, sentence, table, cell, phrase, span>>

\* C10: deleting a Document removes exactly the rows of the contexts whose
\* ownership chain roots at it, from every table, and leaves all others.
C10_DeleteRemovesExactlyOwned ==
    [][\A d \in Ids(document) :
         d \notin Ids(document') =>
             \A i \in 1..7 : AllTables'[i] = {r \in AllTables[i] : ~RootsAt(r.id, d)}]_vars

\* A Document with at least two contexts under it is gone, and another
\* Document and a Sentence of its are still there.
C10_Witness ==
    /\ Cardinality((1..(next_id - 1)) \ Ids(context)) >= 3
    /\ \E r \in sentence : r.document_id \in {Some(d) : d \in Ids(document)}
    /\ call.fn = "delete"

=============================================================================
